---- MODULE Spec2Model ----
(***************************************************************************)
(* A model of the "crust" front end and tree-walking evaluator             *)
(* (src/src/ast.rs, src/src/token.rs, src/src/main.rs).                    *)
(*                                                                         *)
(* The evaluator (Ast::run_main, Func::eval, Statement::eval, Expr::eval)  *)
(* is a small-step machine: `frames` is the Rust call stack of Func::eval  *)
(* invocations (each owning its `vars` list), `kont` records what every    *)
(* pending Expr::eval / Statement::eval still has to do with the value it  *)
(* waits for, and `ctrl` is the point of control.                          *)
(***************************************************************************)
EXTENDS Integers, Sequences, FiniteSets, TLC

VARIABLES
    defs,           \* Ast.defs: the program being run
    funcs,          \* run_main's HashMap<String, Func>
    loadIdx,        \* position of run_main's `for def in &self.defs`
    pc,             \* "parse", "rejected", "load", "run", "done", "panic"
    panic,          \* the panic message once pc = "panic"
    exit,           \* run_main's result once pc = "done"
    frames,         \* stack of Func::eval invocations
    kont,           \* pending continuations of Expr::eval / Statement::eval
    ctrl,           \* what is evaluated next
    overflowChecks, \* the build profile: TRUE = debug (overflow panics)
    nextId,         \* history: number of Call evaluations so far
    log,            \* history: what has been evaluated, in order
    tokens,         \* the parser's input token stream
    parsed          \* parse_recovery's result: [some, ast, errors, used]

vars == <<defs, funcs, loadIdx, pc, panic, exit, frames, kont, ctrl,
          overflowChecks, nextId, log, tokens, parsed>>

(***************************************************************************)
(* Bounds of the model.                                                    *)
(***************************************************************************)
MaxDefs == 3
MaxStmts == 3
MaxArgs == 2
MaxDepth == 4
MaxExprToks == 5
MaxFrags == 3

(***************************************************************************)
(* 32-bit integers.  TLC's integers are themselves 32 bits wide, so every  *)
(* operator below is written so that no intermediate result leaves the     *)
(* range MinI32..MaxI32.                                                   *)
(***************************************************************************)
MaxI32 == 2147483647
MinI32 == (0 - MaxI32) - 1

Abs(x) == IF x < 0 THEN 0 - x ELSE x

\* An Expr::Int payload: a u32, kept as two 16-bit halves.
U32(h, l) == [hi |-> h, lo |-> l]
U(n) == U32(n \div 65536, n % 65536)

\* `*value as i32`: the two's-complement reinterpretation of a u32.
AsI32(u) ==
    IF u.hi < 32768 THEN u.hi * 65536 + u.lo
                    ELSE (u.hi - 65536) * 65536 + u.lo

Ok(v) == [ok |-> TRUE, v |-> v, why |-> ""]
Fail(msg) == [ok |-> FALSE, v |-> 0, why |-> msg]

wrapping_add(a, b) ==
    IF b > 0 /\ a > MaxI32 - b THEN (a - MaxI32 - 1) + (b - MaxI32 - 1)
    ELSE IF b < 0 /\ a < MinI32 - b THEN (a + MaxI32 + 1) + (b + MaxI32 + 1)
    ELSE a + b

add_overflows(a, b) ==
    (b > 0 /\ a > MaxI32 - b) \/ (b < 0 /\ a < MinI32 - b)

wrapping_neg(a) == IF a = MinI32 THEN MinI32 ELSE 0 - a

wrapping_sub(a, b) ==
    IF b = MinI32 THEN wrapping_add(wrapping_add(a, MaxI32), 1)
                  ELSE wrapping_add(a, 0 - b)

sub_overflows(a, b) ==
    (b < 0 /\ a > MaxI32 + b) \/ (b > 0 /\ a < MinI32 + b)

\* the u32 with the same bits as the i32 a
ToU32(a) ==
    IF a >= 0 THEN U(a)
    ELSE U32(((a + MaxI32 + 1) \div 65536) + 32768, (a + MaxI32 + 1) % 65536)

\* (x * y) mod 2^16 and (x * y) div 2^16 of two 16-bit halves
MulLow16(x, y) ==
    ((x % 256) * y + (((x \div 256) * (y % 256)) % 256) * 256) % 65536
MulHigh16(x, y) == ((x \div 256) * y + ((x % 256) * y) \div 256) \div 256

\* a * b modulo 2^32 (the release build's `*`)
wrapping_mul(a, b) ==
    LET x == ToU32(a)
        y == ToU32(b)
    IN  AsI32(U32((MulHigh16(x.lo, y.lo) + MulLow16(x.hi, y.lo)
                     + MulLow16(x.lo, y.hi)) % 65536,
                  MulLow16(x.lo, y.lo)))

\* floor(2^31 / y) for 2 <= y <= MaxI32
Pow31Div(y) == (MaxI32 \div y) + (IF MaxI32 % y = y - 1 THEN 1 ELSE 0)

mul_overflows(a, b) ==
    IF a = 0 \/ b = 0 THEN FALSE
    ELSE IF a = MinI32 THEN b # 1
    ELSE IF b = MinI32 THEN a # 1
    ELSE IF Abs(b) = 1 THEN FALSE
    ELSE Abs(a) > (IF (a < 0) = (b < 0) THEN MaxI32 \div Abs(b)
                                       ELSE Pow31Div(Abs(b)))

\* rounds toward minus infinity
FloorDiv(a, b) == a \div b
\* a / b of two i32 with b # 0 and not (MinI32, -1): truncates toward zero.
TruncDiv(a, b) ==
    IF a = MinI32
    THEN (IF b = MinI32 THEN 1
          ELSE IF b = 1 THEN MinI32
          ELSE IF b > 0 THEN 0 - Pow31Div(b) ELSE Pow31Div(Abs(b)))
    ELSE IF b = MinI32 THEN 0
    ELSE IF (a < 0) = (b < 0) THEN Abs(a) \div Abs(b)
    ELSE 0 - (Abs(a) \div Abs(b))

\* Expr::eval, Self::Neg: `-x`
i32_neg(a, checks) ==
    IF a = MinI32 /\ checks THEN Fail("attempt to negate with overflow")
    ELSE Ok(wrapping_neg(a))

i32_add(a, b, checks) ==
    IF add_overflows(a, b) /\ checks THEN Fail("attempt to add with overflow")
    ELSE Ok(wrapping_add(a, b))

i32_sub(a, b, checks) ==
    IF sub_overflows(a, b) /\ checks
    THEN Fail("attempt to subtract with overflow")
    ELSE Ok(wrapping_sub(a, b))

i32_mul(a, b, checks) ==
    IF mul_overflows(a, b)
    THEN (IF checks THEN Fail("attempt to multiply with overflow")
                    ELSE Ok(wrapping_mul(a, b)))
    ELSE Ok(a * b)

\* `/` panics: division by zero, or the one quotient that is no i32
DivFails(a, b) == b = 0 \/ (a = MinI32 /\ b = 0 - 1)

i32_div(a, b) ==
    IF b = 0 THEN Fail("attempt to divide by zero")
    ELSE IF DivFails(a, b) THEN Fail("attempt to divide with overflow")
    ELSE Ok(TruncDiv(a, b))

BinOp(op, a, b, checks) ==
    CASE op = "Add" -> i32_add(a, b, checks)
      [] op = "Sub" -> i32_sub(a, b, checks)
      [] op = "Mul" -> i32_mul(a, b, checks)
      [] op = "Div" -> i32_div(a, b)

(***************************************************************************)
(* The syntax tree (src/src/ast.rs, the types).                            *)
(***************************************************************************)
Err == [tag |-> "Err"]
IntLit(u) == [tag |-> "Int", value |-> u]
Neg(e) == [tag |-> "Neg", expr |-> e]
Bin(op, l, r) == [tag |-> op, lhs |-> l, rhs |-> r]
Var(n) == [tag |-> "Var", name |-> n]
Call(n, ps) == [tag |-> "Call", name |-> n, params |-> ps]

Invalid == [tag |-> "Invalid"]
Return(e) == [tag |-> "Return", expr |-> e]
Assign(n, e) == [tag |-> "Assign", ty |-> "int", name |-> n, expr |-> e]

Param(n) == [name |-> n, ty |-> "int"]
Func(n, ps, b) == [name |-> n, params |-> ps, ret |-> "int", body |-> b]
DefFunc(n, ps, b) == [tag |-> "Func", func |-> Func(n, ps, b)]
DefStruct(n) == [tag |-> "Struct", name |-> n, params |-> <<>>]

BinTags == {"Add", "Sub", "Mul", "Div"}

Min(a, b) == IF a < b THEN a ELSE b
Top(s) == s[Len(s)]
Pop(s) == SubSeq(s, 1, Len(s) - 1)

(***************************************************************************)
(* The evaluator state as one record, and the history it leaves.           *)
(***************************************************************************)
Cur ==
    [pc |-> pc, panic |-> panic, exit |-> exit, frames |-> frames,
     kont |-> kont, ctrl |-> ctrl, nextId |-> nextId, log |-> log]

Become(n) ==
    /\ pc' = n.pc
    /\ panic' = n.panic
    /\ exit' = n.exit
    /\ frames' = n.frames
    /\ kont' = n.kont
    /\ ctrl' = n.ctrl
    /\ nextId' = n.nextId
    /\ log' = n.log

Ev(ev, fn, a, b) == [ev |-> ev, fn |-> fn, a |-> a, b |-> b]
Logged(s, e) == [s EXCEPT !.log = Append(@, e)]
Panicked(s, msg) == [s EXCEPT !.pc = "panic", !.panic = msg]
EvalExpr(s, e) == [s EXCEPT !.ctrl = [c |-> "expr", e |-> e]]
Yield(s, v) == [s EXCEPT !.ctrl = [c |-> "val", v |-> v]]
Push(s, k) == [s EXCEPT !.kont = Append(@, k)]
Drop(s) == [s EXCEPT !.kont = Pop(@)]
Outcome(s, r) == IF r.ok THEN Yield(s, r.v) ELSE Panicked(s, r.why)

(***************************************************************************)
(* Ast::run_main                                                           *)
(***************************************************************************)
NeverDuplicate(fs, name) == FALSE
\* `funcs.insert(..)` returned Some(_): the name was already in the table
IsDuplicate(fs, name) == name \in DOMAIN fs

Insert(fs, f) ==
    [n \in DOMAIN fs \cup {f.name} |-> IF n = f.name THEN f ELSE fs[n]]

\* one turn of `for def in &self.defs`
LoadStep ==
    /\ pc = "load"
    /\ loadIdx <= Len(defs)
    /\ LET def == defs[loadIdx] IN
        IF def.tag = "Func"
        THEN /\ funcs' = Insert(funcs, def.func)
             /\ IF IsDuplicate(funcs, def.func.name)
                THEN /\ pc' = "panic"
                     /\ panic' = "Duplicate functions"
                     /\ UNCHANGED loadIdx
                ELSE /\ loadIdx' = loadIdx + 1
                     /\ UNCHANGED <<pc, panic>>
        ELSE /\ loadIdx' = loadIdx + 1
             /\ UNCHANGED <<funcs, pc, panic>>
    /\ UNCHANGED <<defs, exit, frames, kont, ctrl, overflowChecks, nextId,
                   log, tokens, parsed>>

HasZeroParamMain(fs) == "main" \in DOMAIN fs /\ fs["main"].params = <<>>
\* `funcs.get("main")` is Some
HasMain(fs) == "main" \in DOMAIN fs

NewFrame(func, scope, id) ==
    [func |-> func, vars |-> scope, idx |-> 1, id |-> id]

\* `let Some(main_func) = funcs.get("main") else { panic!(..) };`
\* `main_func.clone().eval(&mut Vec::new(), &mut funcs)`
Entry ==
    /\ pc = "load"
    /\ loadIdx > Len(defs)
    /\ IF HasMain(funcs)
       THEN /\ pc' = "run"
            /\ frames' = <<NewFrame(funcs["main"], <<>>, 0)>>
            /\ ctrl' = [c |-> "stmt"]
            /\ log' = Append(log, Ev("enter", "main", 1, 0))
            /\ UNCHANGED panic
       ELSE /\ pc' = "panic"
            /\ panic' = "main function not found"
            /\ UNCHANGED <<frames, ctrl, log>>
    /\ UNCHANGED <<defs, funcs, loadIdx, exit, kont, overflowChecks, nextId,
                   tokens, parsed>>

(***************************************************************************)
(* Func::eval and Statement::eval                                          *)
(***************************************************************************)
ReturnsNothing(stmt) == FALSE
\* Statement::eval gives Some(value): only for Self::Return
ReturnsValue(stmt) == stmt.tag = "Return"

\* Func::eval's loop reaches its next statement (or the end of the body),
\* and Statement::eval starts on it.
FuncEvalStep(s) ==
    LET f == Top(s.frames) IN
    IF f.idx > Len(f.func.body)
    THEN Panicked(Logged(s, Ev("end", f.func.name, f.idx, f.id)),
                  "reached end of function with no return")
    ELSE LET stmt == f.func.body[f.idx]
             t == Logged(s, Ev("stmt", f.func.name, f.idx, f.id))
         IN  IF stmt.tag = "Invalid"
             THEN Panicked(t, "reached invalid statement")
             ELSE EvalExpr(Push(t, [k |-> "Stmt", stmt |-> stmt]), stmt.expr)

FuncEval ==
    /\ pc = "run"
    /\ ctrl.c = "stmt"
    /\ Become(FuncEvalStep(Cur))
    /\ UNCHANGED <<defs, funcs, loadIdx, overflowChecks, tokens, parsed>>

(***************************************************************************)
(* Expr::eval                                                              *)
(***************************************************************************)
RECURSIVE LookupFirst(_, _)
LookupFirst(vs, name) ==
    IF vs = <<>> THEN 0
    ELSE IF vs[1][1] = name THEN 1
    ELSE LET r == LookupFirst(Tail(vs), name) IN IF r = 0 THEN 0 ELSE r + 1

\* `vars.iter().rev().find(|(vname, _)| vname == name)`: the position of the
\* binding found, 0 for None.
RECURSIVE Lookup(_, _)
Lookup(vs, name) ==
    IF vs = <<>> THEN 0
    ELSE IF Top(vs)[1] = name THEN Len(vs)
    ELSE Lookup(Pop(vs), name)

ZipFirstOnly(args, params) == Min(Min(Len(args), Len(params)), 1)
\* `params.iter().zip(func.params.iter())`: the number of pairs
ZipLen(args, params) == Min(Len(args), Len(params))


SharedScope(callerVars, fvars) == callerVars \o fvars
\* `func.eval(&mut function_vars, funcs)`: the callee's scope list
CalleeScope(callerVars, fvars) == fvars

\* `func.eval(&mut function_vars, funcs)`.  The Rust stack is finite: the
\* model ends a run whose call depth passes MaxDepth as a stack overflow.
Invoke(s, func, fvars, id) ==
    IF Len(s.frames) >= MaxDepth
    THEN Panicked(s, "stack overflow")
    ELSE [Logged(s, Ev("enter", func.name, Len(s.frames) + 1, id)) EXCEPT
            !.frames = Append(@, NewFrame(func,
                              CalleeScope(Top(s.frames).vars, fvars), id)),
            !.kont = Append(@, [k |-> "Ret"]),
            !.ctrl = [c |-> "stmt"]]

\* the loop over the zipped pairs starts on pair i
EvalArg(s, item) ==
    LET j == item.i IN
    EvalExpr(Push(Logged(s, Ev("arg", item.func.name, j, item.id)), item),
             item.args[j])

\* `funcs.get(name).cloned()` is Some
Resolves(fs, name) == name \in DOMAIN fs

ExprCall(s, e, fs) ==
    LET id == s.nextId + 1
        t == [Logged(s, Ev("call", e.name, Len(e.params), id)) EXCEPT
                !.nextId = id]
    IN  IF ~Resolves(fs, e.name)
        THEN Panicked(t, "unknown function")
        ELSE LET func == fs[e.name]
                 n == ZipLen(e.params, func.params)
             IN  IF n = 0
                 THEN Invoke(t, func, <<>>, id)
                 ELSE EvalArg(t, [k |-> "Arg", func |-> func,
                                  args |-> e.params, i |-> 1, n |-> n,
                                  fvars |-> <<>>, id |-> id])

ExprEvalStep(s, fs) ==
    LET e == s.ctrl.e
        t == Logged(s, Ev("expr", e.tag, Len(s.frames), 0))
    IN  CASE e.tag = "Int" -> Yield(t, AsI32(e.value))
          [] e.tag = "Neg" -> EvalExpr(Push(t, [k |-> "Neg"]), e.expr)
          [] e.tag = "Err" -> Panicked(t, "invalid expression found")
          [] e.tag \in BinTags ->
                EvalExpr(Push(t, [k |-> "BinL", op |-> e.tag, rhs |-> e.rhs]),
                         e.lhs)
          [] e.tag = "Var" ->
                LET vs == Top(t.frames).vars
                    at == Lookup(vs, e.name)
                IN  IF at = 0
                    THEN Panicked(Logged(t, Ev("var", e.name, 0, 0)),
                                  "undeclared variable")
                    ELSE Yield(Logged(t, Ev("var", e.name, vs[at][2], at)),
                               vs[at][2])
          [] e.tag = "Call" -> ExprCall(t, e, fs)

ExprEval ==
    /\ pc = "run"
    /\ ctrl.c = "expr"
    /\ Become(ExprEvalStep(Cur, funcs))
    /\ UNCHANGED <<defs, funcs, loadIdx, overflowChecks, tokens, parsed>>

(***************************************************************************)
(* A pending evaluation receives the value it waited for.                  *)
(***************************************************************************)
\* Statement::eval's result: Some(value) for Self::Return, None for Assign
StatementResult(stmt, v) ==
    IF ReturnsValue(stmt) THEN [some |-> TRUE, v |-> v]
                          ELSE [some |-> FALSE, v |-> 0]

\* Statement::eval has its expression's value: Assign pushes the binding
StatementEffect(s, stmt, v) ==
    IF stmt.tag = "Assign"
    THEN [Logged(s, Ev("assign", stmt.name, v, Top(s.frames).id)) EXCEPT
            !.frames[Len(s.frames)].vars = Append(@, <<stmt.name, v>>)]
    ELSE s

\* Func::eval's `match statement.eval(vars, funcs)`: Some(value) returns
\* from the invocation (to the pending Call, or out of run_main), None goes
\* on with the next statement.
StatementDone(s, stmt, v) ==
    LET t == StatementEffect(s, stmt, v)
        r == StatementResult(stmt, v)
        f == Top(t.frames)
    IN  IF r.some
        THEN LET u == Logged(t, Ev("return", f.func.name, r.v, f.id)) IN
             IF Len(u.frames) = 1
             THEN [u EXCEPT !.pc = "done", !.exit = r.v, !.frames = Pop(@)]
             ELSE Yield([u EXCEPT !.frames = Pop(@), !.kont = Pop(@)], r.v)
        ELSE [t EXCEPT !.frames[Len(t.frames)].idx = @ + 1,
                       !.ctrl = [c |-> "stmt"]]

\* `function_vars.push((param.name.clone(), expr.eval(vars, funcs)))`
ArgDone(s, item, v) ==
    LET j == item.i
        pname == item.func.params[j].name
        fv == Append(item.fvars, <<pname, v>>)
        t == Logged(s, Ev("bind", pname, v, item.id))
    IN  IF item.i < item.n
        THEN EvalArg(t, [item EXCEPT !.i = @ + 1, !.fvars = fv])
        ELSE Invoke(t, item.func, fv, item.id)

ContinueStep(s, checks) ==
    LET k == Top(s.kont)
        v == s.ctrl.v
        t == Drop(s)
    IN  CASE k.k = "Neg" ->
                Outcome(Logged(t, Ev("Neg", "", v, 0)), i32_neg(v, checks))
          [] k.k = "BinL" ->
                EvalExpr(Push(Logged(t, Ev("lhs", k.op, v, 0)),
                              [k |-> "BinR", op |-> k.op, lv |-> v]), k.rhs)
          [] k.k = "BinR" ->
                Outcome(Logged(t, Ev(k.op, "", k.lv, v)),
                        BinOp(k.op, k.lv, v, checks))
          [] k.k = "Arg" -> ArgDone(t, k, v)
          [] k.k = "Stmt" -> StatementDone(t, k.stmt, v)

Continue ==
    /\ pc = "run"
    /\ ctrl.c = "val"
    /\ Become(ContinueStep(Cur, overflowChecks))
    /\ UNCHANGED <<defs, funcs, loadIdx, overflowChecks, tokens, parsed>>

(***************************************************************************)
(* Tokens (src/src/token.rs) and the parser (the `parser()` functions of   *)
(* src/src/ast.rs, built from chumsky's combinators).  A token is its kind *)
(* and its text, the text a sequence of pieces so that a number's digits   *)
(* can be read.  A parser applied at position i of `toks` gives a result:  *)
(* ok or not, its output, the position after it, the errors its recoveries *)
(* recorded, and `crash` when the parser itself panicked.                  *)
(***************************************************************************)
Tok(t, s) == [t |-> t, s |-> s]
TReturn == Tok("Return", <<>>)
TStruct == Tok("Struct", <<>>)
Op(c) == Tok("Op", <<c>>)
Ident(n) == Tok("Ident", <<n>>)
Ctrl(c) == Tok("Ctrl", <<c>>)
Num(text) == Tok("Num", text)

Is(toks, i, tok) == i <= Len(toks) /\ toks[i].t = tok.t /\ toks[i].s = tok.s
IsKind(toks, i, kind) == i <= Len(toks) /\ toks[i].t = kind

Succ(out, pos, errs) ==
    [ok |-> TRUE, crash |-> FALSE, out |-> out, pos |-> pos, errs |-> errs]
Failed(pos) ==
    [ok |-> FALSE, crash |-> FALSE, out |-> <<>>, pos |-> pos, errs |-> <<>>]
Crashed(pos) ==
    [ok |-> FALSE, crash |-> TRUE, out |-> <<>>, pos |-> pos, errs |-> <<>>]

DigitChars == <<"0", "1", "2", "3", "4", "5", "6", "7", "8", "9">>
IsDigit(c) == \E d \in 1..10 : DigitChars[d] = c
DigitOf(c) == (CHOOSE d \in 1..10 : DigitChars[d] = c) - 1

\* `value.parse::<u32>()`: decimal digits only, and no more than 2^32 - 1
RECURSIVE ParseU32From(_, _, _)
ParseU32From(text, i, acc) ==
    IF i > Len(text) THEN [ok |-> TRUE, v |-> acc]
    ELSE IF ~IsDigit(text[i]) THEN [ok |-> FALSE, v |-> acc]
    ELSE LET lo == acc.lo * 10 + DigitOf(text[i])
             hi == acc.hi * 10 + lo \div 65536
         IN  IF hi >= 65536 THEN [ok |-> FALSE, v |-> acc]
             ELSE ParseU32From(text, i + 1, U32(hi, lo % 65536))

ParseU32(text) ==
    IF text = <<>> THEN [ok |-> FALSE, v |-> U32(0, 0)]
    ELSE ParseU32From(text, 1, U32(0, 0))

\* parse_ident()
parse_ident(toks, i) ==
    IF IsKind(toks, i, "Ident") THEN Succ(toks[i].s[1], i + 1, <<>>)
    ELSE Failed(i)

\* chumsky's `a.or(b)`: a when it succeeded without recorded errors, else b
\* when it did, else whichever succeeded (a first).  A panic is not caught.
OrElse(a, b) ==
    IF a.crash \/ (a.ok /\ a.errs = <<>>) THEN a
    ELSE IF b.crash \/ (b.ok /\ b.errs = <<>>) THEN b
    ELSE IF a.ok THEN a
    ELSE IF b.ok THEN b
    ELSE Failed(IF a.pos > b.pos THEN a.pos ELSE b.pos)

\* chumsky's `r.then_ignore(just(tok))`, and the closing delimiter of
\* `delimited_by(.., just(tok))`
ThenJust(toks, r, tok) ==
    IF ~r.ok THEN r
    ELSE IF Is(toks, r.pos, tok) THEN Succ(r.out, r.pos + 1, r.errs)
    ELSE Failed(r.pos)

\* chumsky's `repeated()` and `separated_by(..)` collect the items parsed
Kept(acc, item) ==
    Succ(Append(acc.out, item.out), item.pos, acc.errs \o item.errs)

\* chumsky's recovery::nested_delimiters(open, close, [], ..): from position
\* j, the first token has to be `open`; skip to the token that closes it,
\* counting nested pairs.  The position after it, 0 when there is none.
RECURSIVE SkipNested(_, _, _, _, _)
SkipNested(toks, j, open, close, balance) ==
    IF j > Len(toks) THEN 0
    ELSE IF Is(toks, j, open)
         THEN SkipNested(toks, j + 1, open, close, balance + 1)
    ELSE IF Is(toks, j, close)
         THEN (IF balance - 1 = 0 THEN j + 1
               ELSE IF balance - 1 < 0 THEN 0
               ELSE SkipNested(toks, j + 1, open, close, balance - 1))
    ELSE IF balance = 0 THEN 0
    ELSE SkipNested(toks, j + 1, open, close, balance)

RecoveredAt(r, i, after) ==
    IF after = 0 THEN r
    ELSE Succ(<<>>, after, r.errs \o <<[at |-> i, found |-> r.pos]>>)

\* `block.recover_with(nested_delimiters(open, close, [], |_| Vec::new()))`:
\* a block that failed is replaced by an empty list, and one error recorded
\* against it, when its delimiters can be skipped.
Recovered(r, toks, i, open, close) ==
    IF r.ok \/ r.crash THEN r
    ELSE RecoveredAt(r, i, SkipNested(toks, i, open, close, 0))

SwappedFold(lhs, op, rhs) == Bin(op, rhs, lhs)
\* `.foldl(|lhs, (op, rhs)| op(Box::new(lhs), Box::new(rhs)))`
FoldlStep(lhs, op, rhs) == Bin(op, lhs, rhs)

Folded(acc, op, rhs) ==
    Succ(FoldlStep(acc.out, op, rhs.out), rhs.pos, acc.errs \o rhs.errs)

ProductOps == [c \in {"*", "/"} |-> IF c = "*" THEN "Mul" ELSE "Div"]
SumOps == [c \in {"+", "-"} |-> IF c = "+" THEN "Add" ELSE "Sub"]

\* the token at position i is one of the operators `ops`
IsOp(toks, i, ops) == IsKind(toks, i, "Op") /\ toks[i].s[1] \in DOMAIN ops

RECURSIVE ExprParser(_, _)
RECURSIVE ArgsMore(_, _)
RECURSIVE UnaryParser(_, _)
RECURSIVE ProductMore(_, _)
RECURSIVE SumMore(_, _)

\* `expr.separated_by(just(Token::Ctrl(',')))`: the next item, after the
\* items `acc`; an item that does not parse ends the list before it
ArgsNext(toks, acc, item) ==
    IF item.crash THEN item
    ELSE IF ~item.ok THEN acc
    ELSE ArgsMore(toks, Kept(acc, item))

ArgsMore(toks, acc) ==
    IF ~Is(toks, acc.pos, Ctrl(",")) THEN acc
    ELSE ArgsNext(toks, acc, ExprParser(toks, acc.pos + 1))

\* `expr.separated_by(..).delimited_by(just('('), just(')'))`
ArgsBlock(toks, i) ==
    IF ~Is(toks, i, Ctrl("(")) THEN Failed(i)
    ELSE ThenJust(toks,
                  ArgsNext(toks, Succ(<<>>, i + 1, <<>>), ExprParser(toks, i + 1)),
                  Ctrl(")"))

\* `.map(|(name, params)| Self::Call { name, params })`
CallOf(name, args) ==
    IF args.ok THEN Succ(Call(name, args.out), args.pos, args.errs) ELSE args

\* `let call = parse_ident().then(args).map(..)`
CallParser(toks, i) ==
    LET name == parse_ident(toks, i) IN
    IF ~name.ok THEN name
    ELSE CallOf(name.out, Recovered(ArgsBlock(toks, i + 1), toks, i + 1,
                                    Ctrl("("), Ctrl(")")))

IntOf(n, i) == IF n.ok THEN Succ(IntLit(n.v), i + 1, <<>>) ELSE Crashed(i)
\* `let int = filter_map(..)`: `value.parse::<u32>().unwrap()` panics
IntParser(toks, i) ==
    IF ~IsKind(toks, i, "Num") THEN Failed(i)
    ELSE IntOf(ParseU32(toks[i].s), i)

\* `expr.delimited_by(just(Token::Ctrl('(')), just(Token::Ctrl(')')))`
ParenParser(toks, i) ==
    IF ~Is(toks, i, Ctrl("(")) THEN Failed(i)
    ELSE ThenJust(toks, ExprParser(toks, i + 1), Ctrl(")"))

\* `let variable = parse_ident().map(|name| Self::Var(name))`
VariableParser(toks, i) ==
    LET name == parse_ident(toks, i) IN
    IF name.ok THEN Succ(Var(name.out), name.pos, <<>>) ELSE name

\* `int.or(expr.delimited_by(..)).or(call).or(variable)`
AtomParser(toks, i) ==
    OrElse(OrElse(OrElse(IntParser(toks, i), ParenParser(toks, i)),
                  CallParser(toks, i)),
           VariableParser(toks, i))

\* `.foldr(|_op, rhs| Expr::Neg(Box::new(rhs)))`
Negated(rhs) ==
    IF rhs.ok THEN Succ(Neg(rhs.out), rhs.pos, rhs.errs) ELSE rhs

\* `just(Token::Op('-')).repeated().then(atom).foldr(..)`
UnaryParser(toks, i) ==
    IF Is(toks, i, Op("-")) THEN Negated(UnaryParser(toks, i + 1))
    ELSE AtomParser(toks, i)

\* `(just('*').to(Mul).or(just('/').to(Div))).then(unary).repeated()`, folded
\* into the product `acc` parsed so far: an operator whose right operand
\* does not parse ends the product before it
ProductNext(toks, acc, rhs) ==
    IF rhs.crash THEN rhs
    ELSE IF ~rhs.ok THEN acc
    ELSE ProductMore(toks, Folded(acc, ProductOps[toks[acc.pos].s[1]], rhs))

ProductMore(toks, acc) ==
    IF ~IsOp(toks, acc.pos, ProductOps) THEN acc
    ELSE ProductNext(toks, acc, UnaryParser(toks, acc.pos + 1))

ProductStart(toks, first) ==
    IF first.ok THEN ProductMore(toks, first) ELSE first

ProductParser(toks, i) == ProductStart(toks, UnaryParser(toks, i))

\* `(just('+').to(Add).or(just('-').to(Sub))).then(product).repeated()`
SumNext(toks, acc, rhs) ==
    IF rhs.crash THEN rhs
    ELSE IF ~rhs.ok THEN acc
    ELSE SumMore(toks, Folded(acc, SumOps[toks[acc.pos].s[1]], rhs))

SumMore(toks, acc) ==
    IF ~IsOp(toks, acc.pos, SumOps) THEN acc
    ELSE SumNext(toks, acc, ProductParser(toks, acc.pos + 1))

SumStart(toks, first) == IF first.ok THEN SumMore(toks, first) ELSE first

\* Expr::parser
ExprParser(toks, i) == SumStart(toks, ProductParser(toks, i))

\* `.map(|expr| Self::Return(Box::new(expr)))`
ReturnOf(e) ==
    IF e.ok THEN Succ([tag |-> "Return", expr |-> e.out], e.pos, e.errs) ELSE e

\* Statement::parser: `ret.or(assign)`
RetParser(toks, i) ==
    IF ~Is(toks, i, TReturn) THEN Failed(i)
    ELSE ReturnOf(ThenJust(toks, ExprParser(toks, i + 1), Ctrl(";")))

\* `.map(|((ty, name), expr)| Self::Assign { ty, name, expr: .. })`
AssignOf(ty, name, e) ==
    IF e.ok
    THEN Succ([tag |-> "Assign", ty |-> ty, name |-> name, expr |-> e.out],
              e.pos, e.errs)
    ELSE e

AssignParser(toks, i) ==
    LET ty == parse_ident(toks, i)
        name == parse_ident(toks, i + 1)
    IN  IF ~ty.ok THEN ty
        ELSE IF ~name.ok THEN name
        ELSE IF ~Is(toks, i + 2, Op("=")) THEN Failed(i + 2)
        ELSE AssignOf(ty.out, name.out,
                      ThenJust(toks, ExprParser(toks, i + 3), Ctrl(";")))

StatementParser(toks, i) == OrElse(RetParser(toks, i), AssignParser(toks, i))

\* Param::parser
ParamParser(toks, i) ==
    LET ty == parse_ident(toks, i)
        name == parse_ident(toks, i + 1)
    IN  IF ~ty.ok THEN ty
        ELSE IF ~name.ok THEN name
        ELSE Succ([name |-> name.out, ty |-> ty.out], i + 2, <<>>)

RECURSIVE StatementsMore(_, _)
RECURSIVE FieldsMore(_, _)
RECURSIVE ParamsMore(_, _)
RECURSIVE DefinitionsMore(_, _)

\* `Statement::parser().repeated()`: stops, silently, before the first
\* statement that does not parse
StatementsNext(toks, acc, item) ==
    IF item.crash THEN item
    ELSE IF ~item.ok THEN acc
    ELSE StatementsMore(toks, Kept(acc, item))

StatementsMore(toks, acc) ==
    StatementsNext(toks, acc, StatementParser(toks, acc.pos))

\* `Statement::parser().repeated().delimited_by(just('{'), just('}'))`
BodyBlock(toks, i) ==
    IF ~Is(toks, i, Ctrl("{")) THEN Failed(i)
    ELSE ThenJust(toks, StatementsMore(toks, Succ(<<>>, i + 1, <<>>)), Ctrl("}"))

\* `Param::parser().then_ignore(just(';')).repeated()`
FieldsNext(toks, acc, item) ==
    IF ~item.ok THEN acc ELSE FieldsMore(toks, Kept(acc, item))

FieldsMore(toks, acc) ==
    FieldsNext(toks, acc, ThenJust(toks, ParamParser(toks, acc.pos), Ctrl(";")))

FieldsBlock(toks, i) ==
    IF ~Is(toks, i, Ctrl("{")) THEN Failed(i)
    ELSE ThenJust(toks, FieldsMore(toks, Succ(<<>>, i + 1, <<>>)), Ctrl("}"))

\* `Param::parser().separated_by(just(','))`, after the parameters `acc`
ParamsNext(toks, acc, item) ==
    IF ~item.ok THEN acc ELSE ParamsMore(toks, Kept(acc, item))

ParamsMore(toks, acc) ==
    IF ~Is(toks, acc.pos, Ctrl(",")) THEN acc
    ELSE ParamsNext(toks, acc, ParamParser(toks, acc.pos + 1))

ParamsBlock(toks, i) ==
    IF ~Is(toks, i, Ctrl("(")) THEN Failed(i)
    ELSE ThenJust(toks,
                  ParamsNext(toks, Succ(<<>>, i + 1, <<>>), ParamParser(toks, i + 1)),
                  Ctrl(")"))

\* `.map(|(name, params)| Definition::Struct { name, params })`
StructOf(name, fields) ==
    IF fields.ok
    THEN Succ([tag |-> "Struct", name |-> name, params |-> fields.out],
              fields.pos, fields.errs)
    ELSE fields

\* `let r#struct = just(Token::Struct).ignore_then(parse_ident()).then(..)`
StructParser(toks, i) ==
    LET name == parse_ident(toks, i + 1) IN
    IF ~Is(toks, i, TStruct) THEN Failed(i)
    ELSE IF ~name.ok THEN name
    ELSE StructOf(name.out,
                  ThenJust(toks,
                           Recovered(FieldsBlock(toks, i + 2), toks, i + 2,
                                     Ctrl("{"), Ctrl("}")),
                           Ctrl(";")))

\* `.map(|(((ret, name), params), body)| Self::Func(Func { .. }))`
FuncOf(ret, name, params, body) ==
    IF ~body.ok THEN body
    ELSE Succ([tag |-> "Func",
               func |-> [name |-> name, params |-> params.out, ret |-> ret,
                         body |-> body.out]],
              body.pos, params.errs \o body.errs)

\* the function's body, after its parameter list
FuncBody(toks, ret, name, params) ==
    IF ~params.ok THEN params
    ELSE FuncOf(ret, name, params,
                Recovered(BodyBlock(toks, params.pos), toks, params.pos,
                          Ctrl("{"), Ctrl("}")))

\* `let func = parse_ident().then(parse_ident()).then(..).then(..)`
FuncParser(toks, i) ==
    LET ret == parse_ident(toks, i)
        name == parse_ident(toks, i + 1)
    IN  IF ~ret.ok THEN ret
        ELSE IF ~name.ok THEN name
        ELSE FuncBody(toks, ret.out, name.out,
                      Recovered(ParamsBlock(toks, i + 2), toks, i + 2,
                                Ctrl("("), Ctrl(")")))

\* Definition::parser: `r#struct.or(func)`
DefinitionParser(toks, i) == OrElse(StructParser(toks, i), FuncParser(toks, i))

\* `Definition::parser().repeated()`: the first definition that does not
\* parse ends the repetition, whatever follows it
DefinitionsNext(toks, acc, item) ==
    IF item.crash THEN item
    ELSE IF ~item.ok THEN acc
    ELSE DefinitionsMore(toks, Kept(acc, item))

DefinitionsMore(toks, acc) ==
    DefinitionsNext(toks, acc, DefinitionParser(toks, acc.pos))

\* `.at_least(1)`
AtLeastOne(ds) == IF ds.ok /\ Len(ds.out) < 1 THEN Failed(ds.pos) ELSE ds

\* Ast::parser: `Definition::parser().repeated().at_least(1)`
AstParser(toks) == AtLeastOne(DefinitionsMore(toks, Succ(<<>>, 1, <<>>)))

\* chumsky's parse_recovery: the output if the parser succeeded, and the
\* errors recorded by recoveries, followed by the parser's own if it failed
parse_recovery(r) ==
    IF r.ok
    THEN [some |-> TRUE, ast |-> r.out, errors |-> r.errs, used |-> r.pos - 1]
    ELSE [some |-> FALSE, ast |-> <<>>,
          errors |-> Append(r.errs, [at |-> r.pos, found |-> r.pos]),
          used |-> r.pos - 1]

NotParsed == [some |-> FALSE, ast |-> <<>>, errors |-> <<>>, used |-> 0]

\* what build() does with the parser's result
BuildResult(r) ==
    IF r.crash
    THEN /\ pc' = "panic"
         /\ panic' = "called Result::unwrap() on an Err value"
         /\ UNCHANGED <<parsed, defs>>
    ELSE /\ parsed' = parse_recovery(r)
         /\ UNCHANGED panic
         /\ IF parse_recovery(r).errors # <<>>
            THEN pc' = "rejected" /\ UNCHANGED defs
            ELSE pc' = "load" /\ defs' = parse_recovery(r).ast

\* build(): parse the tokens; any error refuses the build (exit(-1)), and
\* otherwise the tree is written out, to be loaded and run by run()
Build ==
    /\ pc = "parse"
    /\ BuildResult(AstParser(tokens))
    /\ UNCHANGED <<funcs, loadIdx, exit, frames, kont, ctrl, overflowChecks,
                   nextId, log, tokens>>

(***************************************************************************)
(* The programs run: every program of four bounded families.               *)
(***************************************************************************)
SeqsUpTo(S, n) == UNION {[1..k -> S] : k \in 0..n}

N(n) == IntLit(U(n))
MinLit == IntLit(U32(32768, 0))
MaxLit == IntLit(U32(65535, 65535))
Main(body) == DefFunc("main", <<>>, body)

\* (1) definition lists: duplicates anywhere, main present or not
LoadPool ==
    { Main(<<Return(Call("f", <<>>))>>),
      DefFunc("main", <<Param("a")>>, <<Return(N(2))>>),
      DefFunc("f", <<>>, <<Return(N(3))>>),
      DefFunc("f", <<Param("a")>>, <<Return(N(4))>>),
      DefStruct("main") }
LoadPrograms == SeqsUpTo(LoadPool, MaxDefs)

\* (2) main bodies: every statement list over a pool
StmtPool ==
    { Assign("x", N(1)),
      Assign("x", Bin("Add", Var("x"), N(2))),
      Assign("y", Var("x")),
      Return(Var("x")),
      Return(Var("y")),
      Return(Err),
      Invalid }
BodyPrograms == {<<Main(b)>> : b \in SeqsUpTo(StmtPool, MaxStmts)}

\* (3) calls: `int y = 7; return f(args);` over a library of callees
Lib ==
    << DefFunc("add", <<Param("a"), Param("b")>>,
               <<Return(Bin("Add", Var("a"), Var("b")))>>),
       DefFunc("id", <<Param("a")>>, <<Return(Var("a"))>>),
       DefFunc("peek", <<>>, <<Return(Var("y"))>>),
       DefFunc("outer", <<Param("a")>>,
               << Assign("t", Var("a")),
                  Assign("u", Call("add", <<Var("t"), N(1)>>)),
                  Assign("t", Bin("Mul", Var("t"), Var("u"))),
                  Return(Bin("Sub", Var("t"), Var("a"))) >>),
       DefFunc("rec", <<Param("n")>>,
               << Assign("q", Bin("Div", N(6), Var("n"))),
                  Return(Call("rec", <<Bin("Sub", Var("n"), N(1))>>)) >>),
       DefFunc("loop", <<>>, <<Return(Call("loop", <<>>))>>) >>
CalleeNames == {"add", "id", "peek", "outer", "rec", "loop", "foo"}
ArgPool ==
    { N(2), Bin("Div", N(1), N(0)), Var("y"), Call("id", <<N(3)>>) }
CallPrograms ==
    { <<Main(<<Assign("y", N(7)), Return(Call(f, args))>>)>> \o Lib :
        f \in CalleeNames, args \in SeqsUpTo(ArgPool, MaxArgs) }

\* (4) arithmetic: `return <literal>;`, `return -a;` and `return a op b;`
Literals ==
    { U(0), U(1), U(14), U(65536), U(MaxI32), U32(32768, 0), U32(32768, 1),
      U32(65535, 65535) }
Operands ==
    { N(0), N(1), N(2), N(3), N(7), N(10), N(MaxI32), MinLit,
      Neg(N(1)), Neg(N(3)), Neg(N(10)), Neg(N(MaxI32)) }
ArithPrograms ==
    {<<Main(<<Return(IntLit(u))>>)>> : u \in Literals}
    \cup {<<Main(<<Return(Neg(a))>>)>> : a \in Operands}
    \cup {<<Main(<<Return(Bin(op, a, b))>>)>> :
            op \in BinTags, a \in Operands, b \in Operands}

Programs == LoadPrograms \cup BodyPrograms \cup CallPrograms \cup ArithPrograms

Init ==
    /\ defs \in Programs
    /\ overflowChecks \in BOOLEAN
    /\ funcs = <<>>
    /\ loadIdx = 1
    /\ pc = "load"
    /\ panic = ""
    /\ exit = 0
    /\ frames = <<>>
    /\ kont = <<>>
    /\ ctrl = [c |-> "none"]
    /\ nextId = 0
    /\ log = <<>>
    /\ tokens = <<>>
    /\ parsed = NotParsed

Next == LoadStep \/ Entry \/ FuncEval \/ ExprEval \/ Continue

Spec == Init /\ [][Next]_vars

(***************************************************************************)
(* The token streams built: a main whose returned expression is any        *)
(* sequence of at most MaxExprToks tokens of the expression alphabet, or   *)
(* a longer one of a few named examples, or a single literal; and the      *)
(* concatenations of at most MaxFrags definitions, well-formed or not.     *)
(***************************************************************************)
Lit(d) == Num(<<d>>)
ExprAlphabet ==
    {Lit("2"), Ident("x"), Op("-"), Op("*"), Ctrl("("), Ctrl(")")}

BinaryOps == {Op("+"), Op("-"), Op("*"), Op("/")}
TwoOperatorExprs ==
    {<<Lit("8"), op1, Lit("4"), op2, Lit("2")>> : op1, op2 \in BinaryOps}

NamedExprs ==
    { [toks |-> <<Lit("2"), Op("+"), Lit("3"), Op("*"), Lit("4")>>, value |-> 14],
      [toks |-> <<Op("-"), Lit("2"), Op("+"), Lit("3")>>, value |-> 1],
      [toks |-> <<Op("-"), Ctrl("("), Lit("2"), Op("+"), Lit("3"), Ctrl(")")>>,
       value |-> 0 - 5],
      [toks |-> <<Lit("8"), Op("-"), Lit("3"), Op("-"), Lit("2")>>, value |-> 3],
      [toks |-> <<Lit("8"), Op("/"), Lit("4"), Op("/"), Lit("2")>>, value |-> 1],
      [toks |-> <<Lit("2"), Op("*"), Lit("3"), Op("-"), Lit("4"), Op("*"),
                  Op("-"), Op("-"), Ident("x")>>, value |-> 0 - 6],
      [toks |-> <<Lit("8"), Op("-"), Ctrl("("), Lit("3"), Op("-"), Lit("2"),
                  Ctrl(")"), Op("*"), Ident("x")>>, value |-> 5] }

LiteralTexts ==
    { <<"2", ".", "5">>,
      <<"2", "1", "4", "7", "4", "8", "3", "6", "4", "8">>,
      <<"4", "2", "9", "4", "9", "6", "7", "2", "9", "5">>,
      <<"4", "2", "9", "4", "9", "6", "7", "2", "9", "6">> }

ExprPrefix ==
    <<Ident("int"), Ident("main"), Ctrl("("), Ctrl(")"), Ctrl("{"),
      Ident("int"), Ident("x"), Op("="), Lit("3"), Ctrl(";"), TReturn>>
ExprSuffix == <<Ctrl(";"), Ctrl("}")>>
ExprProgram(e) == ExprPrefix \o e \o ExprSuffix

ExprPrograms ==
    {ExprProgram(e) : e \in SeqsUpTo(ExprAlphabet, MaxExprToks)}
        \cup {ExprProgram(e) : e \in TwoOperatorExprs}
        \cup {ExprProgram(ex.toks) : ex \in NamedExprs}
        \cup {ExprProgram(<<Num(text)>>) : text \in LiteralTexts}

FuncHead(name) == <<Ident("int"), Ident(name), Ctrl("("), Ctrl(")")>>
Frag(toks, malformed, balanced, body) ==
    [toks |-> toks, malformed |-> malformed, balanced |-> balanced,
     body |-> body]

Fragments ==
    { Frag(FuncHead("main") \o <<Ctrl("{"), TReturn, Ident("f"), Ctrl("("),
                                 Lit("2"), Ctrl(","), Lit("3"), Ctrl(")"),
                                 Ctrl(";"), Ctrl("}")>>, FALSE, TRUE, FALSE),
      Frag(<<Ident("int"), Ident("f"), Ctrl("("), Ident("int"), Ident("a"),
             Ctrl(","), Ident("int"), Ident("b"), Ctrl(")"), Ctrl("{"),
             TReturn, Ident("a"), Op("+"), Ident("b"), Ctrl(";"), Ctrl("}")>>,
           FALSE, TRUE, FALSE),
      Frag(<<TStruct, Ident("p"), Ctrl("{"), Ident("int"), Ident("a"),
             Ctrl(";"), Ctrl("}"), Ctrl(";")>>, FALSE, TRUE, FALSE),
      Frag(FuncHead("g") \o <<Ctrl("{"), TReturn, Ctrl(";"), Ctrl("}")>>,
           TRUE, TRUE, TRUE),
      Frag(FuncHead("h") \o <<Ctrl("{"), Ctrl("{"), TReturn, Lit("2"),
                              Ctrl(";"), Ctrl("}"), Ident("x"), Ctrl("}")>>,
           TRUE, TRUE, TRUE),
      Frag(<<Ident("int"), Ctrl("("), Ctrl(")"), Ctrl("{"), TReturn, Lit("2"),
             Ctrl(";"), Ctrl("}")>>, TRUE, TRUE, FALSE),
      Frag(<<Ident("int"), Ident("m"), Ctrl("("), Ident("int"), Ctrl(")"),
             Ctrl("{"), TReturn, Lit("2"), Ctrl(";"), Ctrl("}")>>,
           TRUE, TRUE, FALSE),
      Frag(FuncHead("k") \o <<Ctrl("{"), TReturn, Lit("2"), Ctrl(";")>>,
           TRUE, FALSE, TRUE) }

RECURSIVE Concat(_)
Concat(fs) == IF fs = <<>> THEN <<>> ELSE Head(fs).toks \o Concat(Tail(fs))

FragSeqs == SeqsUpTo(Fragments, MaxFrags)
FragmentPrograms == {Concat(fs) : fs \in FragSeqs}

BuildInputs == ExprPrograms \cup FragmentPrograms

InitBuild ==
    /\ tokens \in BuildInputs
    /\ overflowChecks \in BOOLEAN
    /\ parsed = NotParsed
    /\ defs = <<>>
    /\ funcs = <<>>
    /\ loadIdx = 1
    /\ pc = "parse"
    /\ panic = ""
    /\ exit = 0
    /\ frames = <<>>
    /\ kont = <<>>
    /\ ctrl = [c |-> "none"]
    /\ nextId = 0
    /\ log = <<>>

NextBuild == Build \/ LoadStep \/ Entry \/ FuncEval \/ ExprEval \/ Continue

SpecBuild == InitBuild /\ [][NextBuild]_vars

(***************************************************************************)
(* Vocabulary of the properties.                                           *)
(***************************************************************************)
LogIdx == 1..Len(log)
Last(q) == q[Len(q)]
IsFunc(ds, i) == ds[i].tag = "Func"
FuncNamed(ds, i, n) == IsFunc(ds, i) /\ ds[i].func.name = n

HasDuplicateFunc(ds) ==
    \E i, j \in 1..Len(ds) :
        i < j /\ IsFunc(ds, i) /\ FuncNamed(ds, j, ds[i].func.name)

NothingEvaluated ==
    log = <<>> /\ frames = <<>> /\ kont = <<>> /\ ctrl.c = "none"

\* the bindings invocation `id` has made so far: its parameter bindings,
\* then its Assigns, in the order they were executed
ScopeOf(id) ==
    LET sel == SelectSeq(log, LAMBDA e : e.ev \in {"bind", "assign"} /\ e.b = id)
    IN  [i \in 1..Len(sel) |-> <<sel[i].fn, sel[i].a>>]

FramesOwnTheirScope ==
    \A j \in 1..Len(frames) : frames[j].vars = ScopeOf(frames[j].id)

(***************************************************************************)
(* C1: a program with two Func definitions of one name fails at load with  *)
(* the duplicate-definition panic, wherever the duplicates sit and whether *)
(* or not main exists, and nothing is evaluated before or after it: the    *)
(* load loop never completes, and no statement or expression ever runs.    *)
(***************************************************************************)
C1_DuplicateFailsAtLoad ==
    /\ HasDuplicateFunc(defs) =>
          /\ NothingEvaluated
          /\ loadIdx <= Len(defs)
          /\ pc \in {"load", "panic"}
          /\ pc = "panic" => panic = "Duplicate functions"
          /\ pc = "load" => ENABLED LoadStep
    /\ (pc = "panic" /\ panic = "Duplicate functions") =>
          HasDuplicateFunc(defs)

\* reached: the duplicates are first and last of three, and there is no main
C1_Witness ==
    /\ pc = "panic"
    /\ panic = "Duplicate functions"
    /\ Len(defs) = 3
    /\ FuncNamed(defs, 1, "f")
    /\ FuncNamed(defs, 3, "f")
    /\ ~IsFunc(defs, 2)
    /\ defs[1] # defs[3]

(***************************************************************************)
(* C2 as stated: without duplicates, run_main fails with the missing-main  *)
(* panic, nothing evaluated, whenever the program has no ZERO-PARAMETER    *)
(* Func named main, and otherwise runs main.                               *)
(***************************************************************************)
C2_RequiresZeroParamMain ==
    (~HasDuplicateFunc(defs) /\ pc # "load") =>
        IF \E i \in 1..Len(defs) :
               FuncNamed(defs, i, "main") /\ defs[i].func.params = <<>>
        THEN log # <<>> /\ log[1] = Ev("enter", "main", 1, 0)
        ELSE pc = "panic" /\ panic = "main function not found"
             /\ NothingEvaluated

(***************************************************************************)
(* C2 amended: without duplicates, run_main fails with the missing-main    *)
(* panic, nothing evaluated, exactly when the program has no Func named    *)
(* main (whatever its parameters); otherwise it invokes that Func with an  *)
(* empty scope list, and when the run ends normally the exit value is the  *)
(* value main returned.                                                    *)
(***************************************************************************)
C2_MainByName ==
    (~HasDuplicateFunc(defs) /\ pc # "load") =>
        IF \E i \in 1..Len(defs) : FuncNamed(defs, i, "main")
        THEN LET i == CHOOSE i \in 1..Len(defs) : FuncNamed(defs, i, "main")
             IN  /\ log # <<>>
                 /\ log[1] = Ev("enter", "main", 1, 0)
                 /\ ~(pc = "panic" /\ panic = "main function not found")
                 /\ Len(log) = 1 =>
                        frames = <<NewFrame(defs[i].func, <<>>, 0)>>
                 /\ pc = "done" =>
                        /\ Last(log) = Ev("return", "main", exit, 0)
                        /\ frames = <<>>
        ELSE pc = "panic" /\ panic = "main function not found"
             /\ NothingEvaluated

\* reached: a main that declares a parameter has run and returned
C2_Witness ==
    /\ pc = "done"
    /\ exit = 2
    /\ funcs["main"].params # <<>>
    /\ Last(log) = Ev("return", "main", 2, 0)

(***************************************************************************)
(* C3 as stated: a program whose main body is exactly `return <literal>;`  *)
(* exits with a value numerically equal to the literal, for every u32      *)
(* literal.                                                                *)
(***************************************************************************)
IsLiteralMain(ds) ==
    /\ Len(ds) = 1
    /\ FuncNamed(ds, 1, "main")
    /\ ds[1].func.params = <<>>
    /\ Len(ds[1].func.body) = 1
    /\ ds[1].func.body[1].tag = "Return"
    /\ ds[1].func.body[1].expr.tag = "Int"

C3_LiteralExit ==
    (IsLiteralMain(defs) /\ pc = "done") =>
        exit >= 0 /\ U(exit) = defs[1].func.body[1].expr.value

\* the literals below 2^31 do come out equal
C3_SmallLiteralsExit ==
    /\ IsLiteralMain(defs)
    /\ pc = "done"
    /\ defs[1].func.body[1].expr.value = U(MaxI32)
    /\ exit = MaxI32

(***************************************************************************)
(* C4: every frame's scope list is exactly the bindings its invocation has *)
(* executed, oldest first (so an Assign only appends, and nothing is ever  *)
(* removed or changed); a Var lookup yields the value of the LAST binding  *)
(* of the name in the current scope; and a name with no binding there is   *)
(* the undeclared-variable panic.                                          *)
(***************************************************************************)
C4_LatestBindingWins ==
    /\ FramesOwnTheirScope
    /\ (log # <<>> /\ Last(log).ev = "var") =>
          LET e == Last(log)
              vs == Top(frames).vars
              bound == {i \in 1..Len(vs) : vs[i][1] = e.fn}
          IN  IF bound = {}
              THEN pc = "panic" /\ panic = "undeclared variable" /\ e.b = 0
              ELSE /\ \A i \in bound : i <= e.b
                   /\ e.b \in bound
                   /\ e.a = vs[e.b][2]
                   /\ pc = "run"
                   /\ ctrl = [c |-> "val", v |-> vs[e.b][2]]

\* reached: a lookup of a name bound twice, to different values
C4_Witness ==
    /\ log # <<>>
    /\ Last(log).ev = "var"
    /\ LET vs == Top(frames).vars IN
        \E i, j \in 1..Len(vs) :
            /\ i < j
            /\ j = Last(log).b
            /\ vs[i][1] = vs[j][1]
            /\ vs[i][2] # vs[j][2]
            /\ ctrl = [c |-> "val", v |-> vs[j][2]]

(***************************************************************************)
(* C5: the truncated quotient, and when Div fails.                         *)
(***************************************************************************)
\* q is a / b rounded toward zero: a = q * b + r with |r| < |b| and r zero
\* or of a's sign
IsTruncQuot(a, b, q) ==
    /\ ~mul_overflows(q, b)
    /\ ~sub_overflows(a, q * b)
    /\ LET r == a - q * b IN
        /\ r = 0 \/ (r < 0) = (a < 0)
        /\ IF b = MinI32 THEN r # MinI32
           ELSE r # MinI32 /\ Abs(r) < Abs(b)

DivJustEvaluated == log # <<>> /\ Last(log).ev = "Div"

\* C5 as stated: Div(a, b) is a fatal failure exactly when b = 0, and is the
\* quotient truncated toward zero for every other pair of operands.
C5_DivFailsOnlyOnZero ==
    DivJustEvaluated =>
        LET a == Last(log).a
            b == Last(log).b
        IN  IF b = 0
            THEN pc = "panic" /\ panic = "attempt to divide by zero"
            ELSE pc = "run" /\ ctrl.c = "val" /\ IsTruncQuot(a, b, ctrl.v)

\* C5 amended: Div(a, b) is a fatal failure exactly when b = 0 (division by
\* zero) or a = -2^31 and b = -1 (the quotient 2^31 is no i32), in either
\* build profile; for every other pair it is the quotient truncated toward
\* zero.
C5_DivTruncatesOrFails ==
    DivJustEvaluated =>
        LET a == Last(log).a
            b == Last(log).b
        IN  IF b = 0
            THEN pc = "panic" /\ panic = "attempt to divide by zero"
            ELSE IF a = MinI32 /\ b = 0 - 1
            THEN pc = "panic" /\ panic = "attempt to divide with overflow"
            ELSE pc = "run" /\ ctrl.c = "val" /\ IsTruncQuot(a, b, ctrl.v)

\* reached: -2^31 / -1 has panicked, in the build without overflow checks
C5_Witness ==
    /\ DivJustEvaluated
    /\ Last(log) = Ev("Div", "", MinI32, 0 - 1)
    /\ pc = "panic"
    /\ panic = "attempt to divide with overflow"
    /\ ~overflowChecks

(***************************************************************************)
(* C8: the order of events in the evaluation of a Call.                    *)
(***************************************************************************)
\* positions in the log of the events `ev` of the Call numbered id
EventsOf(ev, id) == {p \in LogIdx : log[p].ev = ev /\ log[p].b = id}

\* the events at positions P are numbered 1, 2, ... in log order
NumberedInOrder(P) ==
    \A p \in P : log[p].a = Cardinality({r \in P : r <= p})

\* what holds of every Call, whatever number of arguments it must evaluate:
\* an unknown callee panics at once; the arguments are started one after
\* the other, each after the one before it was bound, each at the caller's
\* frame depth; the callee is entered after the last binding.
CallProtocol(k, mustEvaluate) ==
    LET id == log[k].b
        fn == log[k].fn
        args == EventsOf("arg", id)
        binds == EventsOf("bind", id)
        enters == EventsOf("enter", id)
    IN  IF fn \notin DOMAIN funcs
        THEN /\ k = Len(log)
             /\ pc = "panic"
             /\ panic = "unknown function"
        ELSE /\ \A p \in args \cup binds \cup enters : p > k
             /\ NumberedInOrder(args)
             /\ Cardinality(binds) <= Cardinality(args)
             /\ Cardinality(args) <= Cardinality(binds) + 1
             /\ \A p \in args : \A q \in binds :
                    (q < p) = (Cardinality({r \in binds : r <= q}) < log[p].a)
             /\ \A p \in args :
                    p < Len(log) => log[p + 1] = Ev("expr", log[p + 1].fn,
                                                    log[k - 1].a, 0)
             /\ Cardinality(args) <= mustEvaluate
             /\ Cardinality(enters) <= 1
             /\ \A q \in enters :
                    /\ Cardinality(binds) = mustEvaluate
                    /\ \A p \in binds : p < q
             /\ (pc = "run" /\ enters = {}) => Cardinality(binds) < mustEvaluate

\* C8 as stated: the callee is resolved first, then EVERY argument of the
\* call is evaluated, left to right, in the caller's scope, however many
\* parameters the callee declares, and only then does the callee start.
C8_EveryArgumentEvaluated ==
    \A k \in LogIdx : log[k].ev = "call" => CallProtocol(k, log[k].a)

\* C8 amended: the callee is resolved first (unknown-function panic before
\* any argument is evaluated); then the first min(#arguments, #parameters)
\* argument expressions are evaluated, left to right, in the caller's
\* scope, and only then does the callee start; arguments beyond the
\* callee's parameters are never evaluated, so a failure in one of the
\* evaluated arguments aborts the call before the callee starts while an
\* excess argument cannot fail.
C8_ZippedArgumentsEvaluated ==
    \A k \in LogIdx :
        log[k].ev = "call" =>
            CallProtocol(k, IF log[k].fn \in DOMAIN funcs
                            THEN Min(log[k].a, Len(funcs[log[k].fn].params))
                            ELSE 0)

\* reached: `id(2, 1 / 0)` has returned 2, its failing second argument
\* never evaluated
C8_Witness ==
    /\ pc = "done"
    /\ exit = 2
    /\ FuncNamed(defs, 1, "main")
    /\ Len(defs[1].func.body) = 2
    /\ defs[1].func.body[2] =
          Return(Call("id", <<N(2), Bin("Div", N(1), N(0))>>))
    /\ EventsOf("arg", 1) # {}
    /\ \A p \in LogIdx : log[p].ev # "Div"

(***************************************************************************)
(* C9: every invocation runs in a scope list of its own, which starts as   *)
(* the positional (parameter, argument value) bindings of its call and     *)
(* afterwards holds only what the invocation itself bound; a Var that no   *)
(* binding of the current invocation names is the undeclared-variable      *)
(* panic, whatever the callers have bound; no step changes a frame below   *)
(* the top of the stack, so a caller finds its scope list as it left it    *)
(* when the call returns; and no step after load changes the function      *)
(* table.                                                                  *)
(***************************************************************************)
\* the bindings of call `id` pair the callee's parameters, in order, with
\* the values bound
BindsAreParams(id, fn) ==
    LET sel == SelectSeq(log, LAMBDA e : e.ev = "bind" /\ e.b = id) IN
    /\ Len(sel) <= Len(funcs[fn].params)
    /\ \A i \in 1..Len(sel) : sel[i].fn = funcs[fn].params[i].name

C9_ScopeInv ==
    /\ FramesOwnTheirScope
    /\ \A j \in 1..Len(frames) : \A i \in 1..Len(frames) :
          frames[i].id = frames[j].id => i = j
    /\ \A p \in LogIdx :
          log[p].ev = "enter" =>
            /\ log[p].b = 0 => ~(\E q \in LogIdx : log[q].ev = "bind" /\ log[q].b = 0)
            /\ log[p].b > 0 => BindsAreParams(log[p].b, log[p].fn)
            /\ p = Len(log) =>
                  /\ Len(frames) = log[p].a
                  /\ Top(frames).id = log[p].b
                  /\ Top(frames).func = funcs[log[p].fn]
                  /\ Top(frames).idx = 1
                  /\ \A i \in 1..Len(Top(frames).vars) :
                        Top(frames).vars[i][1] =
                            Top(frames).func.params[i].name
    /\ (log # <<>> /\ Last(log).ev = "var") =>
          LET own == ScopeOf(Top(frames).id) IN
          (\A i \in 1..Len(own) : own[i][1] # Last(log).fn) =>
              pc = "panic" /\ panic = "undeclared variable"

C9_ScopeStep ==
    /\ \A j \in 1..(Len(frames) - 1) :
          j <= Len(frames') => frames'[j] = frames[j]
    /\ Len(frames') < Len(frames) => frames' = Pop(frames)
    /\ pc # "load" => funcs' = funcs

C9_FreshScopePerInvocation == []C9_ScopeInv /\ [][C9_ScopeStep]_vars

\* reached: `add` has returned into `outer`, itself called from main; both
\* callers hold exactly what they held before their calls
C9_Witness ==
    /\ pc = "run"
    /\ Len(frames) = 2
    /\ Top(frames).func.name = "outer"
    /\ Top(frames).vars = <<<<"a", 2>>, <<"t", 2>>>>
    /\ Last(log) = Ev("return", "add", 3, 2)
    /\ frames[1].vars = <<<<"y", 7>>>>

(***************************************************************************)
(* C10: Func::eval runs the statements of the body in order, one after the *)
(* other, and stops at the first Return it reaches, whose value is the     *)
(* invocation's result (the exit value, for main): nothing after that      *)
(* Return is evaluated.  An Invalid statement or an Err expression that is *)
(* reached is a panic, and so is the end of the body.                      *)
(***************************************************************************)
BodyOf(fn) == funcs[fn].body

C10_StatementsInOrder ==
    /\ \A p \in LogIdx :
          log[p].ev = "stmt" =>
            LET body == BodyOf(log[p].fn)
                idx == log[p].a
                before == {q \in EventsOf("stmt", log[p].b) : q < p}
            IN  /\ idx = Cardinality(before) + 1
                /\ idx <= Len(body)
                /\ \A i \in 1..(idx - 1) : body[i].tag = "Assign"
                /\ \A q \in EventsOf("return", log[p].b) \cup
                             EventsOf("end", log[p].b) : q > p
                /\ body[idx].tag = "Invalid" =>
                      /\ p = Len(log)
                      /\ pc = "panic"
                      /\ panic = "reached invalid statement"
    /\ \A p \in LogIdx :
          (log[p].ev = "expr" /\ log[p].fn = "Err") =>
              /\ p = Len(log)
              /\ pc = "panic"
              /\ panic = "invalid expression found"
    /\ \A p \in LogIdx :
          log[p].ev = "return" =>
            LET mine == EventsOf("stmt", log[p].b)
                body == BodyOf(log[p].fn)
            IN  /\ mine # {}
                /\ body[Cardinality(mine)].tag = "Return"
                /\ Cardinality(EventsOf("return", log[p].b)) = 1
                /\ p = Len(log) =>
                      IF log[p].b = 0
                      THEN pc = "done" /\ exit = log[p].a /\ frames = <<>>
                      ELSE pc = "run" /\ ctrl = [c |-> "val", v |-> log[p].a]
    /\ \A p \in LogIdx :
          log[p].ev = "end" =>
            /\ p = Len(log)
            /\ pc = "panic"
            /\ panic = "reached end of function with no return"
            /\ log[p].a = Len(BodyOf(log[p].fn)) + 1
            /\ \A i \in 1..Len(BodyOf(log[p].fn)) :
                  BodyOf(log[p].fn)[i].tag = "Assign"
    /\ pc = "done" => log # <<>> /\ Last(log).ev = "return"
    /\ pc # "done" => exit = 0

\* reached: main has returned from its second statement, and the Invalid
\* statement after it was never evaluated
C10_Witness ==
    /\ pc = "done"
    /\ exit = 1
    /\ FuncNamed(defs, 1, "main")
    /\ defs[1].func.body = <<Assign("x", N(1)), Return(Var("x")), Invalid>>
    /\ Cardinality(EventsOf("stmt", 0)) = 2

(***************************************************************************)
(* The expression grammar, read off a token sequence without parsing it    *)
(* left to right: an expression splits at its last additive operator       *)
(* outside parentheses, a term at its last multiplicative one, and what    *)
(* has neither is a chain of prefix '-' before an atom.                    *)
(***************************************************************************)
Bad == [tag |-> "Bad"]
IsBad(t) == t.tag = "Bad"

Count(e, j, tok) == Cardinality({k \in 1..j : Is(e, k, tok)})
\* the number of parentheses open after the first j tokens of e
DepthAfter(e, j) == Count(e, j, Ctrl("(")) - Count(e, j, Ctrl(")"))
Balanced(e) ==
    /\ \A j \in 1..Len(e) : DepthAfter(e, j) >= 0
    /\ DepthAfter(e, Len(e)) = 0
\* the parenthesis opening at position j closes at the last token of e
ClosesAtEnd(e, j) ==
    /\ Is(e, j, Ctrl("("))
    /\ Is(e, Len(e), Ctrl(")"))
    /\ \A k \in j..(Len(e) - 1) : DepthAfter(e, k) >= 1

EndsOperand(tok) == tok.t \in {"Num", "Ident"} \/ (tok.t = "Ctrl" /\ tok.s = <<")">>)
\* the positions of the binary operators of `ops` outside parentheses
TopBinary(e, ops) ==
    {j \in 2..Len(e) : /\ DepthAfter(e, j) = 0
                       /\ e[j].t = "Op"
                       /\ e[j].s[1] \in DOMAIN ops
                       /\ EndsOperand(e[j - 1])}
Last1(S) == CHOOSE j \in S : \A k \in S : k <= j

RECURSIVE RefTree(_)
RefSplit(e, j, ops) ==
    LET l == RefTree(SubSeq(e, 1, j - 1))
        r == RefTree(SubSeq(e, j + 1, Len(e)))
    IN  IF IsBad(l) \/ IsBad(r) THEN Bad ELSE Bin(ops[e[j].s[1]], l, r)

RefAtom(e) ==
    IF Len(e) = 1 /\ e[1].t = "Num"
    THEN (IF ParseU32(e[1].s).ok THEN IntLit(ParseU32(e[1].s).v) ELSE Bad)
    ELSE IF Len(e) = 1 /\ e[1].t = "Ident" THEN Var(e[1].s[1])
    ELSE IF ClosesAtEnd(e, 1) THEN RefTree(SubSeq(e, 2, Len(e) - 1))
    ELSE IF e[1].t = "Ident" /\ Len(e) >= 3 /\ ClosesAtEnd(e, 2)
    THEN (IF Len(e) = 3 THEN Call(e[1].s[1], <<>>)
          ELSE LET arg == RefTree(SubSeq(e, 3, Len(e) - 1)) IN
               IF IsBad(arg) THEN Bad ELSE Call(e[1].s[1], <<arg>>))
    ELSE Bad

RefTree(e) ==
    IF e = <<>> \/ ~Balanced(e) THEN Bad
    ELSE IF TopBinary(e, SumOps) # {}
         THEN RefSplit(e, Last1(TopBinary(e, SumOps)), SumOps)
    ELSE IF TopBinary(e, ProductOps) # {}
         THEN RefSplit(e, Last1(TopBinary(e, ProductOps)), ProductOps)
    ELSE IF Is(e, 1, Op("-"))
         THEN (LET t == RefTree(Tail(e)) IN IF IsBad(t) THEN Bad ELSE Neg(t))
    ELSE RefAtom(e)

\* the tokens are `int main() { int x = 3; return e; }` for a sequence e of
\* integer literals, identifiers, parentheses and + - * /
ExprOf(toks) ==
    SubSeq(toks, Len(ExprPrefix) + 1, Len(toks) - Len(ExprSuffix))
IsExprToken(tok) ==
    \/ tok.t = "Ident"
    \/ tok.t = "Num" /\ ParseU32(tok.s).ok
    \/ tok.t = "Op" /\ tok.s[1] \in {"+", "-", "*", "/"}
    \/ tok.t = "Ctrl" /\ tok.s[1] \in {"(", ")"}
IsExprProgram(toks) ==
    /\ Len(toks) >= Len(ExprPrefix) + Len(ExprSuffix)
    /\ toks = ExprProgram(ExprOf(toks))
    /\ \A k \in 1..Len(ExprOf(toks)) : IsExprToken(ExprOf(toks)[k])
MainReturning(t) ==
    <<Main(<<Assign("x", N(3)), Return(t)>>)>>
Finished == pc \in {"done", "panic", "rejected"}

\* C6: a token sequence of integer literals, identifiers, parentheses and
\* + - * / is accepted by the build exactly when it is an expression of the
\* grammar, and the tree built for it is then the one in which * and / bind
\* tighter than + and -, both associate to the left, and prefix '-' binds
\* tightest and nests to the right; run, `2 + 3 * 4` gives 14, `-2+3` 1,
\* `-(2+3)` -5 and `8 - 3 - 2` 3.
C6_PrecedenceRespected ==
    /\ (pc # "parse" /\ IsExprProgram(tokens)) =>
         LET t == RefTree(ExprOf(tokens)) IN
         IF IsBad(t)
         THEN pc = "rejected" /\ parsed.errors # <<>>
         ELSE /\ parsed.some
              /\ parsed.errors = <<>>
              /\ parsed.used = Len(tokens)
              /\ parsed.ast = MainReturning(t)
              /\ defs = parsed.ast
    /\ \A ex \in NamedExprs :
         (tokens = ExprProgram(ex.toks) /\ Finished) =>
             pc = "done" /\ exit = ex.value

C6_Witness ==
    /\ pc = "done"
    /\ tokens = ExprProgram(<<Lit("8"), Op("-"), Lit("3"), Op("-"), Lit("2")>>)
    /\ parsed.ast = MainReturning(Bin("Sub", Bin("Sub", N(8), N(3)), N(2)))
    /\ exit = 3

Malformed(fs) == {k \in 1..Len(fs) : fs[k].malformed}

\* C7: when the first definition is a function whose body does not parse,
\* the body is skipped and replaced by an empty one and an error recorded,
\* and every malformed definition after it (each with its own delimiters
\* balanced) gets an error of its own: as many errors are reported as there
\* are malformed definitions, and the parser has read the whole stream.
C7_NoErrorDropped ==
    \A fs \in FragSeqs :
        (/\ pc # "parse"
         /\ fs # <<>>
         /\ tokens = Concat(fs)
         /\ fs[1].malformed /\ fs[1].body
         /\ \A k \in 1..Len(fs) : fs[k].balanced) =>
            /\ Len(parsed.errors) >= Cardinality(Malformed(fs))
            /\ parsed.used = Len(tokens)

\* the part of it that holds: a malformed, balanced body is recovered from
C7_BodyRecovered ==
    \A fs \in FragSeqs :
        (/\ pc # "parse"
         /\ fs # <<>>
         /\ tokens = Concat(fs)
         /\ fs[1].malformed /\ fs[1].body /\ fs[1].balanced) =>
            /\ pc = "rejected"
            /\ parsed.some
            /\ parsed.ast[1].tag = "Func"
            /\ parsed.ast[1].func.body = <<>>
            /\ Len(parsed.errors) >= 1
            /\ parsed.errors[1].at = 5
            /\ (Len(fs) >= 2 /\ ~fs[2].malformed) => Len(parsed.ast) >= 2

==============================================================================
